---- MODULE Spec2Model ----
(***************************************************************************)
(* A model of fetch_lies.py: the state file data.json, the claim filter,   *)
(* the counter update and the three paths of main().                       *)
(*                                                                         *)
(* Three specifications share the operators that model the functions:      *)
(*   Spec        runs of main() against the state file;                    *)
(*   SpecUpd     update_counter as a pure function of (data, false_claims),*)
(*               applied twice with the same list;                         *)
(*   SpecFilter  check_for_recent_false_claims as a pure function of the   *)
(*               fetched claims.                                           *)
(***************************************************************************)
EXTENDS Integers, Sequences, FiniteSets, TLC

VARIABLES
    \* ---- Spec: a sequence of runs of main() ----
    file,          \* data.json: [kind, data], kind in absent / malformed / ok
    pc,            \* position of the current run inside main()
    api_key,       \* TRUE iff GOOGLE_FACT_CHECK_API_KEY is set and non-empty
    data,          \* the dict main() holds after load_data()
    claims,        \* what fetch_fact_checks returned
    false_claims,  \* what check_for_recent_false_claims returned
    runs,          \* number of runs started so far
    startFile,     \* history: data.json when the current run started
    writes,        \* history: completed writes of data.json in the current run
    writeTries,    \* history: calls of save_data in the current run
    fetchCalls,    \* history: calls of fetch_fact_checks in the current run
    path,          \* history: orchestrator path of the current run
    fault,         \* history: the exception that ended the current run
    \* ---- SpecUpd ----
    uS,            \* the state handed to the first update_counter call
    uL,            \* the list of flagged claims handed to both calls
    uHist,         \* the states returned so far, oldest first
    \* ---- SpecFilter ----
    fClaims,       \* the claims handed to the filter
    fOut           \* "pending", or the filter's outcome

mvars == <<file, pc, api_key, data, claims, false_claims, runs, startFile,
           writes, writeTries, fetchCalls, path, fault>>
uvars == <<uS, uL, uHist>>
fvars == <<fClaims, fOut>>
vars == <<mvars, uvars, fvars>>

-----------------------------------------------------------------------------
(* Bounds of the model.                                                    *)

MaxRuns == 2         \* runs of main() in one behaviour of Spec
RunMaxClaims == 1    \* claims in a fetch result of Spec
RunMaxReviews == 2   \* reviews per claim in a fetch result of Spec
MaxDays == 1         \* days_since_lie of an initial state
MaxTerm2 == 1        \* SpecUpd: term_2 of a state, above len(recent_lies)
MaxShort == 2        \* SpecUpd: lists over FlagIds up to this length
MaxLen == 12         \* SpecUpd: longest list of distinct flagged claims
MaxClaims == 2       \* SpecFilter: claims handed to the filter
MaxReviews == 2      \* SpecFilter: reviews per claim

(* Program constants.                                                      *)

KeepLast == 10       \* data["recent_lies"][:10]
Term1Baseline == 30573
WindowHours == 24    \* timedelta(days=1)
FirstRunHour == 72   \* datetime.now(timezone.utc) of the first run, in hours

-----------------------------------------------------------------------------
(* Sequences.                                                              *)

SeqsUpTo(S, n) == UNION {[1..k -> S] : k \in 0..n}

Reverse(s) == [i \in 1..Len(s) |-> s[Len(s) + 1 - i]]

\* s[:n]
Take(s, n) == SubSeq(s, 1, IF Len(s) < n THEN Len(s) ELSE n)

\* list.insert(0, x)
Insert0(s, x) == <<x>> \o s

-----------------------------------------------------------------------------
(* The persisted record and the flagged claims it keeps.                   *)

\* default_data of load_data
default_data ==
    [days_since_lie |-> 0, term_1 |-> Term1Baseline, term_2 |-> 0,
     recent_lies |-> <<>>]

\* A flagged claim as the filter builds it; date is the day number that
\* strftime("%Y-%m-%d") prints.
FlaggedClaim(date, claim, rating, source, url) ==
    [date |-> date, claim |-> claim, rating |-> rating, source |-> source,
     url |-> url]

-----------------------------------------------------------------------------
(* update_counter                                                          *)

\* for claim in false_claims: data["recent_lies"].insert(0, claim)
RECURSIVE InsertAll(_, _)
InsertAll(recent, fc) ==
    IF fc = <<>> THEN recent
    ELSE InsertAll(Insert0(recent, Head(fc)), Tail(fc))

\* Variants of update_counter, each with one slip, used to see that the
\* properties below tell them from update_counter.

\* term_2 raised by the number of entries kept, not by len(false_claims)
update_counter_counts_kept(d, fc) ==
    IF fc # <<>>
    THEN [d EXCEPT !.days_since_lie = 0,
                   !.term_2 = @ + Len(Take(fc, KeepLast)),
                   !.recent_lies = Take(InsertAll(@, fc), KeepLast)]
    ELSE [d EXCEPT !.days_since_lie = @ + 1]

\* the else branch also empties the history
update_counter_clears_history(d, fc) ==
    IF fc # <<>>
    THEN [d EXCEPT !.days_since_lie = 0,
                   !.term_2 = @ + Len(fc),
                   !.recent_lies = Take(InsertAll(@, fc), KeepLast)]
    ELSE [d EXCEPT !.days_since_lie = @ + 1, !.recent_lies = <<>>]

\* a claim already in the history is not inserted again
RECURSIVE InsertNew(_, _)
InsertNew(recent, fc) ==
    IF fc = <<>> THEN recent
    ELSE IF \E j \in 1..Len(recent) : recent[j] = Head(fc)
         THEN InsertNew(recent, Tail(fc))
         ELSE InsertNew(Insert0(recent, Head(fc)), Tail(fc))

update_counter_skips_known(d, fc) ==
    IF fc # <<>>
    THEN [d EXCEPT !.days_since_lie = 0,
                   !.term_2 = @ + Len(fc),
                   !.recent_lies = Take(InsertNew(@, fc), KeepLast)]
    ELSE [d EXCEPT !.days_since_lie = @ + 1]

\* the [:10] is missing
update_counter_no_trim(d, fc) ==
    IF fc # <<>>
    THEN [d EXCEPT !.days_since_lie = 0,
                   !.term_2 = @ + Len(fc),
                   !.recent_lies = InsertAll(@, fc)]
    ELSE [d EXCEPT !.days_since_lie = @ + 1]

\* false_claims + recent_lies instead of one insert(0, claim) per claim
update_counter_extends(d, fc) ==
    IF fc # <<>>
    THEN [d EXCEPT !.days_since_lie = 0,
                   !.term_2 = @ + Len(fc),
                   !.recent_lies = Take(fc \o @, KeepLast)]
    ELSE [d EXCEPT !.days_since_lie = @ + 1]

\* term_2 = len(false_claims) instead of +=
update_counter_assigns_term2(d, fc) ==
    IF fc # <<>>
    THEN [d EXCEPT !.days_since_lie = 0,
                   !.term_2 = Len(fc),
                   !.recent_lies = Take(InsertAll(@, fc), KeepLast)]
    ELSE [d EXCEPT !.days_since_lie = @ + 1]

update_counter(d, fc) ==
    IF fc # <<>>
    THEN [d EXCEPT !.days_since_lie = 0,
                   !.term_2 = @ + Len(fc),
                   !.recent_lies = Take(InsertAll(@, fc), KeepLast)]
    ELSE [d EXCEPT !.days_since_lie = @ + 1]

-----------------------------------------------------------------------------
(* SpecUpd: update_counter applied to a state S and a list L, and then     *)
(* again to the result and the same L.                                     *)

\* Flagged claims told apart by their claim text.
Flag(i) ==
    FlaggedClaim(FirstRunHour \div WindowHours, "claim " \o ToString(i),
                 <<"F", "a", "l", "s", "e">>, "PolitiFact", "u")

FlagIds == 1..2

\* Entries already in the history: texts 101, 102, ...
OldRun(n) == [i \in 1..n |-> Flag(100 + i)]

\* n distinct new claims: texts a, a+1, ...
NewRun(a, n) == [i \in 1..n |-> Flag(a + i - 1)]

\* Valid states: recent_lies is within the cap the program maintains.
UStates ==
    {[days_since_lie |-> dz, term_1 |-> Term1Baseline,
      term_2 |-> Len(rl) + k, recent_lies |-> rl] :
        dz \in 0..MaxDays, k \in 0..MaxTerm2,
        rl \in {OldRun(n) : n \in 0..KeepLast}
               \cup {[i \in 1..n |-> Flag(1)] : n \in 1..MaxShort}}

ULists ==
    {[i \in 1..Len(q) |-> Flag(q[i])] : q \in SeqsUpTo(FlagIds, MaxShort)}
    \cup {NewRun(a, n) : a \in FlagIds, n \in 1..MaxLen}

UInit ==
    /\ uS \in UStates
    /\ uL \in ULists
    /\ uHist = <<>>

\* The state the next call receives.
UCurrent == IF uHist = <<>> THEN uS ELSE uHist[Len(uHist)]

UApply ==
    /\ Len(uHist) < 2
    /\ uHist' = Append(uHist, update_counter(UCurrent, uL))
    /\ UNCHANGED <<uS, uL, mvars, fvars>>

-----------------------------------------------------------------------------
(* The fetched claims.  A key of a JSON object that may be absent is an    *)
(* option [has, v]; dict.get(key, default) is Get.                         *)

Some(v) == [has |-> TRUE, v |-> v]
None(v) == [has |-> FALSE, v |-> v]
Get(opt, default) == IF opt.has THEN opt.v ELSE default

\* A reviewDate value.  form says what the string looks like:
\*   "missing"   no reviewDate key, or null
\*   "empty"     ""
\*   "nonstring" a value without .replace (a number)
\*   "garbage"   a string fromisoformat rejects
\*   "naive"     ISO-8601 without offset: "2024-01-01", "2024-01-01T10:00:00"
\*   "Z"         ISO-8601 ending in Z
\*   "offset"    ISO-8601 with an explicit +hh:00 offset
\* t is the wall-clock time written in the string, in hours; off the offset.
ReviewDate(form, t, off) == [form |-> form, t |-> t, off |-> off]

RawReview(reviewDate, textualRating, publisher, url) ==
    [reviewDate |-> reviewDate, textualRating |-> textualRating,
     publisher |-> publisher, url |-> url]

\* claimReview is an option: the key may be absent.
RawClaim(text, claimReview) == [text |-> text, claimReview |-> claimReview]

-----------------------------------------------------------------------------
(* check_for_recent_false_claims                                           *)

UpperCase ==
    <<"A", "B", "C", "D", "E", "F", "G", "H", "I", "J", "K", "L", "M",
      "N", "O", "P", "Q", "R", "S", "T", "U", "V", "W", "X", "Y", "Z">>
LowerCase ==
    <<"a", "b", "c", "d", "e", "f", "g", "h", "i", "j", "k", "l", "m",
      "n", "o", "p", "q", "r", "s", "t", "u", "v", "w", "x", "y", "z">>

LowerChar(c) ==
    IF \E i \in 1..Len(UpperCase) : UpperCase[i] = c
    THEN LowerCase[CHOOSE i \in 1..Len(UpperCase) : UpperCase[i] = c]
    ELSE c

\* str.lower(), a string being the sequence of its characters
Lower(str) == [i \in 1..Len(str) |-> LowerChar(str[i])]

\* term in rating
Contains(str, term) ==
    \E i \in 1..(Len(str) - Len(term) + 1) :
        SubSeq(str, i, i + Len(term) - 1) = term

FalseTerms ==
    {<<"f", "a", "l", "s", "e">>,
     <<"p", "a", "n", "t", "s", " ", "o", "n", " ", "f", "i", "r", "e">>,
     <<"l", "i", "e">>,
     <<"i", "n", "c", "o", "r", "r", "e", "c", "t">>,
     <<"w", "r", "o", "n", "g">>}

\* any(term in rating for term in [...]), rating already lowercased
IsFalseRating(textualRating) ==
    LET rating == Lower(Get(textualRating, <<>>))
    IN  \E term \in FalseTerms : Contains(rating, term)

UnknownRating == <<"U", "n", "k", "n", "o", "w", "n">>

\* cutoff_time = now - timedelta(days=1)
CutoffTime(now) == now - WindowHours

\* What lines 93-116 do with one review: "skip" (a continue), "append", or
\* "raise" (the TypeError of comparing an offset-naive datetime with the
\* offset-aware cutoff_time, which no except clause catches).
ReviewStep(review, now) ==
    LET rd == review.reviewDate
    IN  IF rd.form \in {"missing", "empty"} THEN "skip"
        ELSE IF rd.form \in {"nonstring", "garbage"} THEN "skip"
        ELSE IF rd.form = "naive" THEN "raise"
        ELSE LET offset == IF rd.form = "Z" THEN 0 ELSE rd.off
                 utc == rd.t - offset
             IN  IF utc < CutoffTime(now) THEN "skip"
                 ELSE IF IsFalseRating(review.textualRating) THEN "append"
                 ELSE "skip"

\* The dict appended at lines 110-116.
FlaggedOf(claim, review) ==
    FlaggedClaim(review.reviewDate.t \div WindowHours,
                 Get(claim.text, "Unknown claim"),
                 Get(review.textualRating, UnknownRating),
                 Get(Get(review.publisher, None("")), "Unknown source"),
                 Get(review.url, ""))

Returned(out) == [err |-> FALSE, out |-> out]
Raised == [err |-> TRUE, out |-> <<>>]

\* for review in claim["claimReview"]
RECURSIVE ReviewLoop(_, _, _, _)
ReviewLoop(claim, reviews, acc, now) ==
    IF reviews = <<>> THEN Returned(acc)
    ELSE LET review == Head(reviews)
             step == ReviewStep(review, now)
         IN  IF step = "raise" THEN Raised
             ELSE ReviewLoop(claim, Tail(reviews),
                             IF step = "append"
                             THEN Append(acc, FlaggedOf(claim, review))
                             ELSE acc,
                             now)

\* for claim in claims
RECURSIVE ClaimLoop(_, _, _)
ClaimLoop(cs, acc, now) ==
    IF cs = <<>> THEN Returned(acc)
    ELSE LET claim == Head(cs)
         IN  IF ~claim.claimReview.has THEN ClaimLoop(Tail(cs), acc, now)
             ELSE LET r == ReviewLoop(claim, claim.claimReview.v, acc, now)
                  IN  IF r.err THEN Raised
                      ELSE ClaimLoop(Tail(cs), r.out, now)

check_for_recent_false_claims(cs, now) == ClaimLoop(cs, <<>>, now)

-----------------------------------------------------------------------------
(* SpecFilter: the filter applied to a fetched list of claims.             *)

RatingFalse == Some(<<"F", "a", "l", "s", "e">>)
RatingHalfTrue == Some(<<"H", "a", "l", "f", " ", "T", "r", "u", "e">>)

Publisher == Some(Some("PolitiFact"))

\* The reviewDate values tried: the ones that are skipped, one without
\* offset, and offset-aware ones on both sides of the 24-hour window.
FilterDates(now) ==
    {ReviewDate(form, 0, 0) :
        form \in {"missing", "empty", "nonstring", "garbage"}}
    \cup {ReviewDate("naive", now - 1, 0)}
    \cup {ReviewDate("Z", t, 0) : t \in {now - 25, now - 23}}
    \cup {ReviewDate("offset", now - 23 + 5, 5)}

FilterReviews(now) ==
    {RawReview(d, r, Publisher, Some("u")) :
        d \in FilterDates(now), r \in {RatingFalse, RatingHalfTrue}}

FilterClaims(now) ==
    {RawClaim(Some("t"), None(<<>>))}
    \cup {RawClaim(Some("t"), Some(rs)) :
            rs \in SeqsUpTo(FilterReviews(now), MaxReviews)}

FilterInputs(now) == SeqsUpTo(FilterClaims(now), MaxClaims)

Pending == [done |-> FALSE, err |-> FALSE, out |-> <<>>]

FInit ==
    /\ fClaims \in FilterInputs(FirstRunHour)
    /\ fOut = Pending

FRun ==
    /\ ~fOut.done
    /\ LET r == check_for_recent_false_claims(fClaims, FirstRunHour)
       IN  fOut' = [done |-> TRUE, err |-> r.err, out |-> r.out]
    /\ UNCHANGED <<fClaims, mvars, uvars>>

-----------------------------------------------------------------------------
(* The state file.                                                         *)

\* json.dump(data, f): the document, key by key.
json_dump(d) ==
    <<<<"days_since_lie", d.days_since_lie>>, <<"term_1", d.term_1>>,
      <<"term_2", d.term_2>>, <<"recent_lies", d.recent_lies>>>>

\* json.load(f) of a well-formed document
json_load(doc) ==
    [days_since_lie |-> doc[1][2], term_1 |-> doc[2][2],
     term_2 |-> doc[3][2], recent_lies |-> doc[4][2]]

NoDoc == <<>>
Absent == [kind |-> "absent", doc |-> NoDoc]
Malformed == [kind |-> "malformed", doc |-> NoDoc]
Written(d) == [kind |-> "ok", doc |-> json_dump(d)]

\* How a call of save_data can end: the write completes; open() fails and
\* the file is untouched; the write fails after open() truncated the file.
IOOutcomes == {"ok", "denied", "truncated"}

\* save_data(d), ending as io says.
save_data(d, io) ==
    /\ writeTries' = writeTries + 1
    /\ writes' = IF io = "ok" THEN writes + 1 ELSE writes
    /\ file' = CASE io = "ok" -> Written(d)
                 [] io = "denied" -> file
                 [] io = "truncated" -> Malformed
    /\ fault' = IF io = "ok" THEN fault ELSE "IOError"

-----------------------------------------------------------------------------
(* Spec: runs of main().                                                   *)

\* datetime.now(timezone.utc) in the current run: one run a day.
Clock == FirstRunHour + WindowHours * (runs - 1)

\* States a state file can hold when a behaviour starts.
InitStates ==
    {[days_since_lie |-> dz, term_1 |-> Term1Baseline,
      term_2 |-> Len(rl), recent_lies |-> rl] :
        dz \in 0..MaxDays, rl \in {OldRun(0), OldRun(KeepLast - 1)}}

InitFiles == {Absent, Malformed} \cup {Written(d) : d \in InitStates}

\* Reviews of a fetch result: flagged, too old, and without offset.
RunReviews(now) ==
    {RawReview(ReviewDate("Z", now - 1, 0), RatingFalse, Publisher, Some("u")),
     RawReview(ReviewDate("Z", now - 25, 0), RatingFalse, Publisher, Some("u")),
     RawReview(ReviewDate("naive", now - 1, 0), RatingFalse, Publisher,
               Some("u"))}

RunClaims(now) ==
    {RawClaim(Some("t"), None(<<>>))}
    \cup {RawClaim(Some("t"), Some(rs)) :
            rs \in SeqsUpTo(RunReviews(now), RunMaxReviews)}

FetchResults(now) == SeqsUpTo(RunClaims(now), RunMaxClaims) \ {<<>>}

MInit ==
    /\ file \in InitFiles
    /\ pc = "idle"
    /\ api_key = FALSE
    /\ data = default_data
    /\ claims = <<>>
    /\ false_claims = <<>>
    /\ runs = 0
    /\ startFile = file
    /\ writes = 0
    /\ writeTries = 0
    /\ fetchCalls = 0
    /\ path = "none"
    /\ fault = "none"

\* A run starts: main() reads the environment variable (line 154).
StartRun ==
    /\ pc \in {"idle", "done", "aborted"}
    /\ runs < MaxRuns
    /\ runs' = runs + 1
    /\ api_key' \in BOOLEAN
    /\ pc' = "load"
    /\ data' = default_data
    /\ claims' = <<>>
    /\ false_claims' = <<>>
    /\ startFile' = file
    /\ writes' = 0
    /\ writeTries' = 0
    /\ fetchCalls' = 0
    /\ path' = IF api_key' THEN "credential" ELSE "no_credential"
    /\ fault' = "none"
    /\ UNCHANGED <<uvars, fvars, file>>

\* load_data, the file is there and well-formed (lines 17-18)
LoadFound ==
    /\ pc = "load"
    /\ file.kind = "ok"
    /\ data' = json_load(file.doc)
    /\ pc' = "loaded"
    /\ UNCHANGED <<uvars, fvars, file, api_key, claims, false_claims, runs, startFile,
                   writes, writeTries, fetchCalls, path, fault>>

\* load_data without the save_data(default_data) of line 27
LoadNotFound_no_save ==
    /\ pc = "load"
    /\ file.kind = "absent"
    /\ data' = default_data
    /\ pc' = "loaded"
    /\ UNCHANGED <<uvars, fvars, file, api_key, claims, false_claims, runs,
                   startFile, writes, writeTries, fetchCalls, path, fault>>

\* load_data, FileNotFoundError (lines 19-28)
LoadNotFound ==
    /\ pc = "load"
    /\ file.kind = "absent"
    /\ \E io \in IOOutcomes :
        /\ save_data(default_data, io)
        /\ pc' = IF io = "ok" THEN "loaded" ELSE "aborted"
    /\ data' = default_data
    /\ UNCHANGED <<uvars, fvars, api_key, claims, false_claims, runs, startFile,
                   fetchCalls, path>>

\* load_data treating a malformed file like a missing one
LoadMalformed_resets ==
    /\ pc = "load"
    /\ file.kind = "malformed"
    /\ \E io \in IOOutcomes :
        /\ save_data(default_data, io)
        /\ pc' = IF io = "ok" THEN "loaded" ELSE "aborted"
    /\ data' = default_data
    /\ UNCHANGED <<uvars, fvars, api_key, claims, false_claims, runs,
                   startFile, fetchCalls, path>>

\* load_data, JSONDecodeError (lines 29-31): re-raised, main() ends
LoadMalformed ==
    /\ pc = "load"
    /\ file.kind = "malformed"
    /\ pc' = "aborted"
    /\ fault' = "JSONDecodeError"
    /\ UNCHANGED <<uvars, fvars, file, api_key, data, claims, false_claims, runs,
                   startFile, writes, writeTries, fetchCalls, path>>

\* main() with lines 162 and 163 swapped: saved before incremented
NoCredential_saves_first ==
    /\ pc = "loaded"
    /\ ~api_key
    /\ data' = [data EXCEPT !.days_since_lie = @ + 1]
    /\ \E io \in IOOutcomes :
        /\ save_data(data, io)
        /\ pc' = IF io = "ok" THEN "done" ELSE "aborted"
    /\ UNCHANGED <<uvars, fvars, api_key, claims, false_claims, runs,
                   startFile, fetchCalls, path>>

\* main(), no API key (lines 156-165)
NoCredential ==
    /\ pc = "loaded"
    /\ ~api_key
    /\ data' = [data EXCEPT !.days_since_lie = @ + 1]
    /\ \E io \in IOOutcomes :
        /\ save_data(data', io)
        /\ pc' = IF io = "ok" THEN "done" ELSE "aborted"
    /\ UNCHANGED <<uvars, fvars, api_key, claims, false_claims, runs, startFile,
                   fetchCalls, path>>

\* fetch_fact_checks returns the claims of the response (lines 63-66)
FetchOk ==
    /\ pc = "loaded"
    /\ api_key
    /\ fetchCalls' = fetchCalls + 1
    /\ claims' \in FetchResults(Clock)
    /\ pc' = "fetched"
    /\ UNCHANGED <<uvars, fvars, file, api_key, data, false_claims, runs, startFile,
                   writes, writeTries, path, fault>>

\* fetch_fact_checks returns []: a RequestException (lines 67-69), or a
\* response without claims (line 66)
FetchEmpty ==
    /\ pc = "loaded"
    /\ api_key
    /\ fetchCalls' = fetchCalls + 1
    /\ claims' = <<>>
    /\ pc' = "fetched"
    /\ UNCHANGED <<uvars, fvars, file, api_key, data, false_claims, runs, startFile,
                   writes, writeTries, path, fault>>

\* main(), no claims returned (lines 173-177)
NoClaims ==
    /\ pc = "fetched"
    /\ claims = <<>>
    /\ path' = "no_claims"
    /\ data' = [data EXCEPT !.days_since_lie = @ + 1]
    /\ \E io \in IOOutcomes :
        /\ save_data(data', io)
        /\ pc' = IF io = "ok" THEN "done" ELSE "aborted"
    /\ UNCHANGED <<uvars, fvars, api_key, claims, false_claims, runs, startFile,
                   fetchCalls>>

\* main(), line 180: the filter returns, or its exception ends main()
Filter ==
    /\ pc = "fetched"
    /\ claims # <<>>
    /\ path' = "normal"
    /\ LET r == check_for_recent_false_claims(claims, Clock)
       IN  /\ false_claims' = r.out
           /\ pc' = IF r.err THEN "aborted" ELSE "filtered"
           /\ fault' = IF r.err THEN "TypeError" ELSE fault
    /\ UNCHANGED <<uvars, fvars, file, api_key, data, claims, runs, startFile, writes,
                   writeTries, fetchCalls>>

\* main(), line 183
Update ==
    /\ pc = "filtered"
    /\ data' = update_counter(data, false_claims)
    /\ pc' = "updated"
    /\ UNCHANGED <<uvars, fvars, file, api_key, claims, false_claims, runs, startFile,
                   writes, writeTries, fetchCalls, path, fault>>

\* main(), line 186
SaveResult ==
    /\ pc = "updated"
    /\ \E io \in IOOutcomes :
        /\ save_data(data, io)
        /\ pc' = IF io = "ok" THEN "done" ELSE "aborted"
    /\ UNCHANGED <<uvars, fvars, api_key, data, claims, false_claims, runs, startFile,
                   fetchCalls, path>>

\* Variables of the specifications that are not running stay at rest.
MIdle ==
    /\ file = Absent
    /\ pc = "idle"
    /\ api_key = FALSE
    /\ data = default_data
    /\ claims = <<>>
    /\ false_claims = <<>>
    /\ runs = 0
    /\ startFile = Absent
    /\ writes = 0
    /\ writeTries = 0
    /\ fetchCalls = 0
    /\ path = "none"
    /\ fault = "none"

UIdle == uS = default_data /\ uL = <<>> /\ uHist = <<>>

FIdle == fClaims = <<>> /\ fOut = Pending

Init == MInit /\ UIdle /\ FIdle

Next ==
    \/ StartRun
    \/ LoadFound
    \/ LoadNotFound
    \/ LoadMalformed
    \/ NoCredential
    \/ FetchOk
    \/ FetchEmpty
    \/ NoClaims
    \/ Filter
    \/ Update
    \/ SaveResult

Spec == Init /\ [][Next]_vars

InitUpd == UInit /\ MIdle /\ FIdle

NextUpd == UApply

SpecUpd == InitUpd /\ [][NextUpd]_vars

InitFilter == FInit /\ MIdle /\ UIdle

NextFilter == FRun

SpecFilter == InitFilter /\ [][NextFilter]_vars

-----------------------------------------------------------------------------
(* Properties of update_counter, checked under SpecUpd.                    *)

\* The state the i-th call received.
UPre(i) == IF i = 1 THEN uS ELSE uHist[i - 1]

UCalls == 1..Len(uHist)

\* C1: for a non-empty list L, update_counter returns days_since_lie = 0,
\* term_2 raised by the full length of L (also when L is longer than the
\* history keeps), and term_1 unchanged.
C1_ResetAndCount ==
    uL # <<>> =>
        \A i \in UCalls :
            /\ uHist[i].days_since_lie = 0
            /\ uHist[i].term_2 = UPre(i).term_2 + Len(uL)
            /\ uHist[i].term_1 = UPre(i).term_1

C1_Witness ==
    /\ Len(uL) > KeepLast
    /\ Len(uHist) >= 1
    /\ uS.days_since_lie > 0
    /\ uHist[1].term_2 = uS.term_2 + Len(uL)
    /\ Len(uHist[1].recent_lies) < Len(uL)

\* C2: for the empty list, update_counter changes days_since_lie to the old
\* value plus one and nothing else.
C2_EmptyOnlyIncrements ==
    uL = <<>> =>
        \A i \in UCalls :
            /\ uHist[i].days_since_lie = UPre(i).days_since_lie + 1
            /\ uHist[i].term_1 = UPre(i).term_1
            /\ uHist[i].term_2 = UPre(i).term_2
            /\ uHist[i].recent_lies = UPre(i).recent_lies

C2_Witness ==
    /\ uL = <<>>
    /\ Len(uHist) = 2
    /\ Len(uS.recent_lies) = KeepLast
    /\ uHist[2].days_since_lie = uS.days_since_lie + 2
    /\ uHist[2].recent_lies = uS.recent_lies

\* C4 as claimed: applying update_counter a second time with the same
\* non-empty list leaves recent_lies as the first application left it.
C4_Idempotent ==
    (uL # <<>> /\ Len(uHist) = 2) =>
        uHist[2].recent_lies = uHist[1].recent_lies

\* C4 as amended: the second application with the same list L puts the
\* entries of L, reversed, in front of the first result once more and trims
\* to 10, and counts them in term_2 once more; recent_lies is left as the
\* first application left it when L has 10 entries or more, and it grows
\* whenever the first result holds fewer than 10 entries.
C4_SecondApplication ==
    (uL # <<>> /\ Len(uHist) = 2) =>
        /\ uHist[2].recent_lies =
               Take(Reverse(uL) \o uHist[1].recent_lies, KeepLast)
        /\ uHist[2].term_2 = uS.term_2 + 2 * Len(uL)
        /\ Len(uL) >= KeepLast =>
               uHist[2].recent_lies = uHist[1].recent_lies
        /\ Len(uHist[1].recent_lies) < KeepLast =>
               Len(uHist[2].recent_lies) > Len(uHist[1].recent_lies)

C4_Witness ==
    /\ Len(uL) = 1
    /\ Len(uHist) = 2
    /\ uS.recent_lies = <<>>
    /\ uHist[1].recent_lies = uL
    /\ uHist[2].recent_lies = uL \o uL

\* C8: after any call of update_counter the history has at most 10 entries.
C8_HistoryBounded ==
    \A i \in UCalls : Len(uHist[i].recent_lies) <= KeepLast

C8_Witness ==
    /\ Len(uHist) = 2
    /\ Len(uL) > KeepLast
    /\ Len(uS.recent_lies) = KeepLast
    /\ Len(uHist[2].recent_lies) = KeepLast

\* The last n entries of s.
LastN(s, n) == SubSeq(s, Len(s) - n + 1, Len(s))

\* C10: for a non-empty list L = [c1, ..., cn], recent_lies becomes the
\* first 10 entries of [cn, ..., c1] followed by the previous entries; with
\* n > 10 it is the last 10 claims of L, reversed, and no previous entry.
C10_ReversedPrepend ==
    uL # <<>> =>
        \A i \in UCalls :
            /\ uHist[i].recent_lies =
                   Take(Reverse(uL) \o UPre(i).recent_lies, KeepLast)
            /\ uHist[i].recent_lies[1] = uL[Len(uL)]
            /\ Len(uL) > KeepLast =>
                   uHist[i].recent_lies = Reverse(LastN(uL, KeepLast))

C10_Witness ==
    /\ Len(uHist) >= 1
    /\ Len(uL) > KeepLast
    /\ uL[1] # uL[Len(uL)]
    /\ uS.recent_lies # <<>>
    /\ uHist[1].recent_lies[1] = uL[Len(uL)]
    /\ \A j \in 1..KeepLast : uHist[1].recent_lies[j] # uS.recent_lies[1]

-----------------------------------------------------------------------------
(* Properties of the claim filter, checked under SpecFilter.               *)

\* The reviews whose reviewDate is missing or is not an ISO-8601 timestamp
\* with a Z suffix or an explicit offset.
BadTimestamp(review) == review.reviewDate.form \notin {"Z", "offset"}

KeepGood(reviews) ==
    LET RECURSIVE Keep(_)
        Keep(rs) == IF rs = <<>> THEN <<>>
                    ELSE IF BadTimestamp(Head(rs)) THEN Keep(Tail(rs))
                    ELSE <<Head(rs)>> \o Keep(Tail(rs))
    IN  Keep(reviews)

WithoutBadTimestamps(cs) ==
    [i \in 1..Len(cs) |->
        IF cs[i].claimReview.has
        THEN RawClaim(cs[i].text, Some(KeepGood(cs[i].claimReview.v)))
        ELSE cs[i]]

\* C7: the filter never raises on a review's timestamp; a review whose
\* reviewDate is missing or not an ISO-8601 timestamp with Z or an offset is
\* skipped, and the other reviews are evaluated as if it were not there.
C7_BadTimestampSkipped ==
    fOut.done =>
        /\ ~fOut.err
        /\ fOut.out =
               check_for_recent_false_claims(WithoutBadTimestamps(fClaims),
                                             FirstRunHour).out

-----------------------------------------------------------------------------
(* Properties of the runs of main(), checked under Spec.                   *)

RunEnded == pc \in {"done", "aborted"}

\* What load_data returns in the current run, from the file the run found.
Loaded ==
    IF startFile.kind = "ok" THEN json_load(startFile.doc) ELSE default_data

Persisted == json_load(file.doc)

\* C3 as claimed: a run on any of the three paths, the state file there at
\* the start or not, writes the state file exactly once and ends normally
\* (runs that meet a malformed state file or a failing write set aside).
C3_WrittenOnce ==
    (RunEnded /\ startFile.kind # "malformed" /\ fault # "IOError") =>
        (pc = "done" /\ writes = 1)

\* C3 as amended: a run that ends normally took one of the three paths and
\* wrote the state file once if the file was there at the start, twice if it
\* was absent (load_data writes the default record, the path writes the
\* result).  Not every run ends normally: a malformed state file, a failing
\* write, and the TypeError the filter raises for a reviewDate without
\* offset end it; in the last case nothing is written after load_data.
C3_WritesPerRun ==
    /\ pc = "done" =>
        /\ path \in {"no_credential", "no_claims", "normal"}
        /\ fault = "none"
        /\ writes = IF startFile.kind = "absent" THEN 2 ELSE 1
        /\ writeTries = writes
    /\ pc = "aborted" =>
        /\ fault \in {"JSONDecodeError", "IOError", "TypeError"}
        /\ fault = "JSONDecodeError" <=> startFile.kind = "malformed"
        /\ fault = "TypeError" =>
            /\ path = "normal"
            /\ writes = IF startFile.kind = "absent" THEN 1 ELSE 0
            /\ writeTries = writes

C3_Witness ==
    /\ pc = "done"
    /\ path = "normal"
    /\ startFile.kind = "absent"
    /\ writes = 2
    /\ false_claims # <<>>

\* C5: a run that finds the state file malformed ends in load_data with the
\* JSONDecodeError; it never calls save_data or fetch_fact_checks, and the
\* file keeps its content, with the API key set or not.
C5_MalformedNoWrite ==
    (runs >= 1 /\ startFile.kind = "malformed") =>
        /\ pc \in {"load", "aborted"}
        /\ pc = "aborted" => fault = "JSONDecodeError"
        /\ writeTries = 0
        /\ writes = 0
        /\ fetchCalls = 0
        /\ file = startFile

C5_Witness ==
    /\ pc = "aborted"
    /\ startFile.kind = "malformed"
    /\ api_key
    /\ fault = "JSONDecodeError"

\* C6: a run without API key never calls fetch_fact_checks, and when it has
\* ended normally the state file holds the loaded state with days_since_lie
\* one higher and term_1, term_2 and recent_lies as loaded.
C6_NoCredentialIncrement ==
    (runs >= 1 /\ ~api_key) =>
        /\ fetchCalls = 0
        /\ pc = "done" =>
            /\ file.kind = "ok"
            /\ Persisted.days_since_lie = Loaded.days_since_lie + 1
            /\ Persisted.term_1 = Loaded.term_1
            /\ Persisted.term_2 = Loaded.term_2
            /\ Persisted.recent_lies = Loaded.recent_lies

C6_Witness ==
    /\ pc = "done"
    /\ ~api_key
    /\ runs = 2
    /\ startFile.kind = "ok"
    /\ Loaded.recent_lies # <<>>
    /\ Persisted.days_since_lie = Loaded.days_since_lie + 1

\* C9: the persisted term_2 never falls below the value the run loaded, and
\* it is above that value only in a run on the normal path whose filter
\* returned at least one flagged claim (a file once malformed stays so, C5).
C9_Term2Monotone ==
    (startFile.kind # "malformed" /\ file.kind = "ok") =>
        /\ Persisted.term_2 >= Loaded.term_2
        /\ Persisted.term_2 > Loaded.term_2 =>
            /\ path = "normal"
            /\ false_claims # <<>>
            /\ Persisted.term_2 = Loaded.term_2 + Len(false_claims)

C9_Witness ==
    /\ runs = 2
    /\ pc = "done"
    /\ startFile.kind = "ok"
    /\ Loaded.term_2 > 0
    /\ Persisted.term_2 > Loaded.term_2

====
